---- MODULE Spec2Model ----
(***************************************************************************)
(* A model of route_optimizer/views.py: the optimize_route endpoint, the   *)
(* station selection get_fuel_stations_by_state, and the cost helpers      *)
(* calculate_fuel_cost / calculate_total_cost.                             *)
(*                                                                         *)
(* Numbers.  Coordinates are whole degrees.  geodesic(a, b).miles is the   *)
(* WGS-84 distance geopy computes, tabulated in ten-thousandths of a mile  *)
(* for the latitudes 40..42 north.  Prices are whole cents.  The floats of *)
(* the cost helpers are IEEE-754 doubles, computed bit for bit: a float is *)
(* [m, e] for m * 2^e, with m an integer of 53 bits held as a sequence of  *)
(* digits.                                                                 *)
(***************************************************************************)
EXTENDS Integers, Sequences, FiniteSets, TLC

VARIABLES
    csv_file,       \* the rows of the fuel price CSV file on disk
    FUEL_DATA,      \* the module-level DataFrame loaded from the CSV
    argsort_kind,   \* how this build's sort orders rows of equal price
    limits,         \* how much the mapping services return in this run
    req,            \* per request: position in optimize_route and its locals
    sel,            \* a direct call of the selection / total-cost helpers
    cost            \* the last two direct calls of calculate_fuel_cost

vars == <<csv_file, FUEL_DATA, argsort_kind, limits, req, sel, cost>>

----------------------------------------------------------------------------
\* Program constants

VEHICLE_RANGE == 500

VEHICLE_MPG == 10

HEAD_ROWS == 5

----------------------------------------------------------------------------
\* Bounds of the model

MaxSteps == 2

MaxPlaces == 2

ConcSteps == 1

ConcPlaces == 1

MaxRows == 6

MaxStops == 2

MaxDistance == 3

MaxPrice == 3

Requests == {1, 2}

----------------------------------------------------------------------------
\* Python values

None == "<None>"

\* A local variable not assigned yet, where its values are records.
Unbound == [unbound |-> TRUE]

IsBound(x) == "unbound" \notin DOMAIN x

\* Python truthiness of an optional string: None and "" are falsy.
truthy(s) == s # None /\ s # ""

Abs(a) == IF a >= 0 THEN a ELSE -a

Min(a, b) == IF a <= b THEN a ELSE b

Max(a, b) == IF a >= b THEN a ELSE b

----------------------------------------------------------------------------
\* Integers of more than 31 bits: the digits of base Limb, least significant
\* first, with no zero digit at the top (so that zero is <<>>).

Limb == 32768

RECURSIVE BigOf(_)
BigOf(n) == IF n = 0 THEN <<>> ELSE <<n % Limb>> \o BigOf(n \div Limb)

RECURSIVE BigToInt(_)
BigToInt(a) == IF a = <<>> THEN 0 ELSE Head(a) + Limb * BigToInt(Tail(a))

RECURSIVE BigNorm(_)
BigNorm(a) ==
    IF a # <<>> /\ a[Len(a)] = 0 THEN BigNorm(SubSeq(a, 1, Len(a) - 1)) ELSE a

RECURSIVE BigAdd(_, _, _)
BigAdd(a, b, carry) ==
    IF a = <<>> /\ b = <<>> THEN BigOf(carry)
    ELSE LET t == (IF a = <<>> THEN 0 ELSE Head(a))
                  + (IF b = <<>> THEN 0 ELSE Head(b)) + carry
         IN  <<t % Limb>> \o BigAdd(IF a = <<>> THEN <<>> ELSE Tail(a),
                                    IF b = <<>> THEN <<>> ELSE Tail(b),
                                    t \div Limb)

\* a - b - borrow, for a >= b + borrow, before the top zeros are dropped.
RECURSIVE BigSubDigits(_, _, _)
BigSubDigits(a, b, borrow) ==
    IF a = <<>> THEN <<>>
    ELSE LET t == Head(a) - (IF b = <<>> THEN 0 ELSE Head(b)) - borrow
         IN  <<t % Limb>> \o BigSubDigits(Tail(a),
                                          IF b = <<>> THEN <<>> ELSE Tail(b),
                                          IF t < 0 THEN 1 ELSE 0)

BigSub(a, b) == BigNorm(BigSubDigits(a, b, 0))

\* a * k + carry, for 0 < k <= Limb.
RECURSIVE BigMulSmall(_, _, _)
BigMulSmall(a, k, carry) ==
    IF a = <<>> THEN BigOf(carry)
    ELSE LET t == Head(a) * k + carry
         IN  <<t % Limb>> \o BigMulSmall(Tail(a), k, t \div Limb)

\* a * Limb
BigShiftDigit(a) == IF a = <<>> THEN <<>> ELSE <<0>> \o a

RECURSIVE BigMul(_, _)
BigMul(a, b) ==
    IF a = <<>> \/ b = <<>> THEN <<>>
    ELSE BigAdd(IF Head(b) = 0 THEN <<>> ELSE BigMulSmall(a, Head(b), 0),
                BigShiftDigit(BigMul(a, Tail(b))), 0)

\* Quotient digits and remainder of a by d, for 0 < d <= Limb.
RECURSIVE BigDivDigits(_, _)
BigDivDigits(a, d) ==
    IF a = <<>> THEN [q |-> <<>>, r |-> 0]
    ELSE LET hi == BigDivDigits(Tail(a), d)
             t == hi.r * Limb + Head(a)
         IN  [q |-> <<t \div d>> \o hi.q, r |-> t % d]

BigDivMod(a, d) ==
    LET dv == BigDivDigits(a, d) IN [q |-> BigNorm(dv.q), r |-> dv.r]

RECURSIVE BigLess(_, _)
BigLess(a, b) ==
    IF Len(a) # Len(b) THEN Len(a) < Len(b)
    ELSE IF a = <<>> THEN FALSE
    ELSE IF a[Len(a)] # b[Len(b)] THEN a[Len(a)] < b[Len(b)]
    ELSE BigLess(BigNorm(SubSeq(a, 1, Len(a) - 1)),
                 BigNorm(SubSeq(b, 1, Len(b) - 1)))

RECURSIVE Bits(_)
Bits(n) == IF n = 0 THEN 0 ELSE 1 + Bits(n \div 2)

\* The number of bits of a: 15 to a digit.
BigBits(a) == IF a = <<>> THEN 0 ELSE 15 * (Len(a) - 1) + Bits(a[Len(a)])

RECURSIVE Pow2(_)
Pow2(n) == IF n = 0 THEN 1 ELSE 2 * Pow2(n - 1)

\* a * 2^n
RECURSIVE BigShl(_, _)
BigShl(a, n) ==
    IF n = 0 THEN a
    ELSE IF n >= 15 THEN BigShl(BigShiftDigit(a), n - 15)
    ELSE BigMulSmall(a, Pow2(n), 0)

\* floor(a / 2^n), and whether a non-zero bit was shifted out.
RECURSIVE BigShr(_, _)
BigShr(a, n) ==
    IF n = 0 \/ a = <<>> THEN [q |-> a, lost |-> FALSE]
    ELSE IF n >= 15
         THEN LET rest == BigShr(Tail(a), n - 15)
              IN  [q |-> rest.q, lost |-> rest.lost \/ Head(a) # 0]
    ELSE LET dv == BigDivMod(a, Pow2(n)) IN [q |-> dv.q, lost |-> dv.r # 0]

----------------------------------------------------------------------------
\* Python floats: IEEE-754 binary64, round to nearest, ties to even.  A float
\* is [m, e] for the value m * 2^e: a normal float has 2^52 <= m < 2^53 and
\* -1074 <= e <= 971, a subnormal one 0 < m < 2^52 and e = -1074, and zero
\* is m = 0 and e = 0.  The values here are non-negative.

FloatZero == [m |-> <<>>, e |-> 0]

\* inf, the result of an overflow: in the order of float_less it lies above
\* every finite float.
FloatInf == [m |-> <<1>>, e |-> 1100]

\* sys.float_info.max and the least positive (subnormal) float
FloatMax == [m |-> BigSub(BigShl(<<1>>, 53), <<1>>), e |-> 971]

FloatMin == [m |-> <<1>>, e |-> -1074]

\* x is neither zero, subnormal nor inf.
IsNormal(x) == BigBits(x.m) = 53

\* floor(n / 2^bits) rounded to nearest, ties to even, where `lost` tells
\* that n itself stands for a value slightly above n.
RoundShift(n, bits, lost) ==
    IF bits = 0 THEN n
    ELSE LET above == BigShr(n, bits - 1)
             q == BigDivMod(above.q, 2)
             up == /\ q.r = 1
                   /\ \/ above.lost
                      \/ lost
                      \/ (q.q # <<>> /\ Head(q.q) % 2 = 1)
         IN  IF up THEN BigAdd(q.q, <<1>>, 0) ELSE q.q

\* The float nearest to (n / d) * 2^e, for 0 < d <= Limb: rounded to 53
\* bits, or to fewer where the exponent would fall below -1074 (gradual
\* underflow, down to zero), and inf where it would exceed 971 (overflow).
RECURSIVE correctly_rounded(_, _, _)
correctly_rounded(n, d, e) ==
    IF n = <<>> THEN FloatZero
    ELSE LET dv == BigDivMod(n, d)
             bits == BigBits(dv.q)
         IN  IF bits < 55 THEN correctly_rounded(BigShl(n, 55 - bits), d,
                                                 e - (55 - bits))
             ELSE LET shift == Max(bits - 53, -1074 - e)
                      m == RoundShift(dv.q, shift, dv.r # 0)
                      x == IF BigBits(m) = 54
                           THEN [m |-> BigDivMod(m, 2).q, e |-> e + shift + 1]
                           ELSE [m |-> m, e |-> e + shift]
                  IN  IF m = <<>> THEN FloatZero
                      ELSE IF x.e > 971 THEN FloatInf
                      ELSE x

\* float(n / scale) of a decimal literal: n units of 1/scale.
float_of_decimal(n, scale) == correctly_rounded(BigOf(n), scale, 0)

\* x / k for a finite x and an int k: k converts to a float exactly.
float_div_int(x, k) == correctly_rounded(x.m, k, x.e)

\* x // k for a finite x and an int 0 < k < 2^14: from 2^67 on, x / k is a
\* whole number.
float_floordiv_int(x, k) ==
    LET whole == IF x.e >= 0 THEN BigShl(x.m, x.e) ELSE BigShr(x.m, -x.e).q
    IN  IF x.e >= 15 THEN correctly_rounded(x.m, k, x.e)
        ELSE correctly_rounded(BigDivMod(whole, k).q, 1, 0)

\* x * y, for finite x and y
float_mul(x, y) == correctly_rounded(BigMul(x.m, y.m), 1, x.e + y.e)

\* The integer nearest to x * k, ties to even, for an int k.
nearest_int_of_times(x, k) ==
    LET n == BigMulSmall(x.m, k, 0)
    IN  IF x.m = <<>> THEN 0
        ELSE IF x.e >= 0 THEN BigToInt(BigShl(n, x.e))
        ELSE BigToInt(RoundShift(n, -x.e, FALSE))

\* The two implementations of round(x, 2) a build can run, by the type of x:
\* float.__round__ rounds the exact value of x to two decimals;
\* numpy.float64.__round__ computes rint(x * 100) / 100.  Either way the
\* result is the float nearest to a whole number of cents: that number.
RoundKinds == {"float", "numpy.float64"}

round_2(x, round_kind) ==
    IF round_kind = "float" THEN nearest_int_of_times(x, 100)
    ELSE nearest_int_of_times(float_mul(x, float_of_decimal(100, 1)), 1)

\* The position of the leading bit of x # 0: 2^(Top(x) - 1) <= x < 2^Top(x).
Top(x) == BigBits(x.m) + x.e

\* x < y
float_less(x, y) ==
    LET e == Min(x.e, y.e)
    IN  IF x.m = <<>> \/ y.m = <<>> THEN y.m # <<>>
        ELSE IF Top(x) # Top(y) THEN Top(x) < Top(y)
        ELSE BigLess(BigShl(x.m, x.e - e), BigShl(y.m, y.e - e))

\* The greatest float below x, for a normal x above the least normal float.
float_before(x) ==
    IF BigBits(BigSub(x.m, <<1>>)) = 53 THEN [m |-> BigSub(x.m, <<1>>), e |-> x.e]
    ELSE [m |-> BigSub(BigShl(<<1>>, 53), <<1>>), e |-> x.e - 1]

\* The least float that is at least x * (1 + 2^-50), for a normal x below
\* FloatMax / 2: ceil(m / 2^50) units in the last place above x.
float_one_part_in_2_50_above(x) ==
    LET units == BigShr(x.m, 50)
        m == BigAdd(x.m, units.q, IF units.lost THEN 1 ELSE 0)
    IN  IF BigBits(m) = 53 THEN [m |-> m, e |-> x.e]
        ELSE [m |-> BigShr(BigAdd(m, <<1>>, 0), 1).q, e |-> x.e + 1]

----------------------------------------------------------------------------
\* geopy's geodesic(a, b).miles on the WGS-84 ellipsoid, in ten-thousandths
\* of a mile (rounded to the nearest), for points <<lat, lng>> in whole
\* degrees: latitudes 40..42 north, at most 17 degrees of longitude apart.
\* Row: the two latitudes; position: the degrees of longitude apart, plus 1.
\* The float geopy returns is known no further than this: a tabulated value
\* stands for any float within half a ten-thousandth of a mile of it.  No
\* value is that close to 500 miles.

TenThousandths(miles) == miles * 10000

geodesic_table(lat_a, lat_b) ==
    CASE {lat_a, lat_b} = {40} ->
          << 0, 530610, 1061203, 1591763, 2122273, 2652716, 3183076,
             3713335, 4243476, 4773484, 5303341, 5833030, 6362534, 6891836,
             7420919, 7949766, 8478360, 9006682 >>
      [] {lat_a, lat_b} = {40, 41} ->
          << 689997, 868048, 1259248, 1724118, 2216745, 2722056, 3234061,
             3749966, 4268304, 4788228, 5309214, 5830921, 6353110, 6875612,
             7398300, 7921075, 8443859, 8966588 >>
      [] {lat_a, lat_b} = {40, 42} ->
          << 1380114, 1475782, 1731343, 2088889, 2505090, 2955226, 3425898,
             3909647, 4402111, 4900608, 5403412, 5909366, 6417665, 6927734,
             7439147, 7951585, 8464798, 8978590 >>
      [] {lat_a, lat_b} = {41} ->
          << 0, 522789, 1045561, 1568298, 2090984, 2613602, 3136134,
             3658562, 4180871, 4703042, 5225058, 5746901, 6268555, 6790002,
             7311224, 7832204, 8352923, 8873365 >>
      [] {lat_a, lat_b} = {41, 42} ->
          << 690117, 863372, 1246123, 1702466, 2186763, 2683877, 3187767,
             3695609, 4205915, 4717829, 5230819, 5744538, 6258745, 6773268,
             7287977, 7802772, 8317574, 8832317 >>
      [] {lat_a, lat_b} = {42} ->
          << 0, 514808, 1029598, 1544353, 2059056, 2573688, 3088232,
             3602671, 4116987, 4631162, 5145178, 5659017, 6172663, 6686096,
             7199299, 7712254, 8224942, 8737346 >>

geodesic_miles(a, b) == geodesic_table(a[1], b[1])[Abs(a[2] - b[2]) + 1]

----------------------------------------------------------------------------
\* pandas DataFrames: a sequence of <index label, row> pairs, a row being a
\* function from column names to values.

read_csv(rows) == [i \in 1..Len(rows) |-> [index |-> i - 1, row |-> rows[i]]]

\* df[df[col].isin(values)]
isin_filter(df, col, values) == SelectSeq(df, LAMBDA e : e.row[col] \in values)

\* df[[c1, c2, ...]]
project(df, cols) ==
    [i \in DOMAIN df |->
        [index |-> df[i].index, row |-> [c \in cols |-> df[i].row[c]]]]

head(df, n) == SubSeq(df, 1, Min(n, Len(df)))

\* df.to_json(orient='records'): the rows without their index labels.
to_json_records(df) == [i \in DOMAIN df |-> df[i].row]

\* The order sort_values puts two rows in.  Its default kind is quicksort,
\* which is not stable: rows of equal key come out in an order fixed by the
\* build (argsort_kind), the same for the same input.
sorts_before(a, b, by, kind) ==
    \/ a.row[by] < b.row[by]
    \/ /\ a.row[by] = b.row[by]
       /\ IF kind = "table_order" THEN a.index < b.index ELSE a.index > b.index

RECURSIVE insert_sorted(_, _, _, _)
insert_sorted(e, sorted, by, kind) ==
    IF sorted = <<>> THEN <<e>>
    ELSE IF sorts_before(e, Head(sorted), by, kind) THEN <<e>> \o sorted
    ELSE <<Head(sorted)>> \o insert_sorted(e, Tail(sorted), by, kind)

RECURSIVE sort_values_asc(_, _, _)
sort_values_asc(df, by, kind) ==
    IF df = <<>> THEN <<>>
    ELSE insert_sorted(Head(df), sort_values_asc(Tail(df), by, kind), by, kind)

sort_values_desc(df, by, kind) ==
    LET a == sort_values_asc(df, by, kind)
    IN  [i \in DOMAIN a |-> a[Len(a) + 1 - i]]

sort_values(df, by, kind) == sort_values_asc(df, by, kind)

----------------------------------------------------------------------------
\* get_fuel_stations_by_state

unique_states_of(fuel_stations_within_500_miles) ==
    {fuel_stations_within_500_miles[i].state :
        i \in DOMAIN fuel_stations_within_500_miles}

filtered_data_near_only(fuel_stations_within_500_miles) ==
    SelectSeq(FUEL_DATA, LAMBDA e :
        \E i \in DOMAIN fuel_stations_within_500_miles :
            /\ fuel_stations_within_500_miles[i].state = e.row["State"]
            /\ fuel_stations_within_500_miles[i].formatted_address = e.row["Address"])

filtered_data_of(fuel_stations_within_500_miles) ==
    isin_filter(FUEL_DATA, "State",
                unique_states_of(fuel_stations_within_500_miles))

get_fuel_stations_by_state_desc(fuel_stations_within_500_miles) ==
    LET filtered_data == filtered_data_of(fuel_stations_within_500_miles)
        sorted_data == sort_values_desc(filtered_data, "Retail Price", argsort_kind)
        result == project(sorted_data,
                          {"OPIS Truckstop ID", "Truckstop Name", "Retail Price"})
    IN  head(result, HEAD_ROWS)

get_fuel_stations_by_state(fuel_stations_within_500_miles) ==
    LET filtered_data == filtered_data_of(fuel_stations_within_500_miles)
        sorted_data == sort_values(filtered_data, "Retail Price", argsort_kind)
        result == project(sorted_data,
                          {"OPIS Truckstop ID", "Truckstop Name", "Retail Price"})
    IN  head(result, HEAD_ROWS)

----------------------------------------------------------------------------
\* calculate_fuel_cost, calculate_total_cost

\* calculate_fuel_cost with `//` for `/`: whole gallons only.
calculate_fuel_cost_floor_div(distance, fuel_price) ==
    LET gallons_needed == float_floordiv_int(distance, VEHICLE_MPG)
    IN  float_mul(gallons_needed, fuel_price)

calculate_fuel_cost(distance, fuel_price) ==
    LET gallons_needed == float_div_int(distance, VEHICLE_MPG)
    IN  float_mul(gallons_needed, fuel_price)

\* The rows of station_distances matching a row of the price table.  pandas
\* compares elementwise, and a comparison with a missing value (None) is
\* False, on either side.
matching_station(row, fuel_stations_within_500_miles) ==
    SelectSeq(fuel_stations_within_500_miles, LAMBDA s :
        /\ s.state # None /\ row["state"] # None /\ s.state = row["state"]
        /\ s.lat = row["lat"]
        /\ s.lng = row["lng"])

\* The first column a loop iteration reads that does not exist, if any:
\* pandas raises KeyError for it.
missing_key(row, station_columns) ==
    IF "OPIS Truckstop ID" \notin DOMAIN row THEN "OPIS Truckstop ID"
    ELSE IF "Truckstop Name" \notin DOMAIN row THEN "Truckstop Name"
    ELSE IF "Retail Price" \notin DOMAIN row THEN "Retail Price"
    ELSE IF "state" \notin station_columns THEN "state"
    ELSE IF "state" \notin DOMAIN row THEN "state"
    ELSE IF "lat" \notin station_columns THEN "lat"
    ELSE IF "lat" \notin DOMAIN row THEN "lat"
    ELSE IF "lng" \notin station_columns THEN "lng"
    ELSE IF "lng" \notin DOMAIN row THEN "lng"
    ELSE None

\* The floats a stop's distance can be: those from `lo` to `hi`, within half
\* a ten-thousandth of a mile of the tabulated value (0 is 0.0 itself).
distance_floats(distance) ==
    IF distance = 0 THEN [lo |-> FloatZero, hi |-> FloatZero]
    ELSE [lo |-> float_of_decimal(2 * distance - 1, 20000),
          hi |-> float_of_decimal(2 * distance + 1, 20000)]

\* round(calculate_fuel_cost(distance, price), 2), in cents: the values it
\* takes over the floats the distance can be.  Division, product and round
\* never decrease when the distance increases, so these are the whole
\* numbers between the values at the two ends.
total_costs(distance, price, round_kind) ==
    LET within == distance_floats(distance)
        fuel_price == float_of_decimal(price, 100)
    IN  round_2(calculate_fuel_cost(within.lo, fuel_price), round_kind)
          .. round_2(calculate_fuel_cost(within.hi, fuel_price), round_kind)

\* Lines 77-97.  A distance is in ten-thousandths of a mile, a price in
\* cents, a total_cost the set of numbers of cents it can be (one number,
\* unless the cost is within rounding of half a cent).
RECURSIVE total_cost_loop(_, _, _, _)
total_cost_loop(rows, fuel_stations_within_500_miles, round_kind, result) ==
    IF rows = <<>> THEN [raised |-> None, value |-> result]
    ELSE
        LET row == Head(rows).row
            station_columns ==
                IF fuel_stations_within_500_miles = <<>> THEN {}
                ELSE DOMAIN fuel_stations_within_500_miles[1]
            key == missing_key(row, station_columns)
        IN  IF key # None THEN [raised |-> "KeyError", key |-> key]
            ELSE
                LET m == matching_station(row, fuel_stations_within_500_miles)
                IN  IF m # <<>>
                    THEN total_cost_loop(Tail(rows), fuel_stations_within_500_miles,
                            round_kind,
                            Append(result,
                              [id |-> row["OPIS Truckstop ID"],
                               name |-> row["Truckstop Name"],
                               total_cost |->
                                  total_costs(m[1].distance, row["Retail Price"],
                                              round_kind)]))
                    ELSE total_cost_loop(Tail(rows), fuel_stations_within_500_miles,
                                         round_kind, result)

calculate_total_cost(filtered_fuel_stations, fuel_stations_within_500_miles, round_kind) ==
    total_cost_loop(head(filtered_fuel_stations, HEAD_ROWS),
                    fuel_stations_within_500_miles, round_kind, <<>>)

----------------------------------------------------------------------------
\* The world outside the process: the CSV file and the mapping services.

FuelRow(id, city, state, price) ==
    [c \in {"OPIS Truckstop ID", "Truckstop Name", "Address", "City", "State",
            "Retail Price"} |->
        CASE c = "OPIS Truckstop ID" -> id
          [] c = "Truckstop Name" -> "TRUCKSTOP"
          [] c = "Address" -> "I-80, EXIT 1"
          [] c = "City" -> city
          [] c = "State" -> state
          [] c = "Retail Price" -> price]

\* Where a station of the CSV stands (the CSV itself holds no coordinates).
StationCoords(row) ==
    CASE row["City"] = "Sidney" -> <<41, -103>>
      [] row["City"] = "Rockford" -> <<42, -89>>
      [] OTHER -> <<41, -96>>

EmptyCsv == <<>>

NebraskaCsv ==
    << FuelRow(11, "Omaha", "NE", 310), FuelRow(12, "Rockford", "IL", 290),
       FuelRow(13, "Sidney", "NE", 300), FuelRow(14, "Omaha", "NE", 320),
       FuelRow(15, "Omaha", "NE", 300), FuelRow(16, "Omaha", "NE", 330),
       FuelRow(17, "Omaha", "NE", 305) >>

TexasCsv == << FuelRow(21, "Amarillo", "TX", 250) >>

SampleCsvFiles == {EmptyCsv, NebraskaCsv, TexasCsv}

ArgsortKinds == {"table_order", "reverse_table_order"}

\* request.data.get('start') and request.data.get('finish')
StartAddresses == {None, "", "Chicago, IL"}

FinishAddresses == {None, "", "Denver, CO"}

StartLocation == [lat |-> 42, lng |-> -88]

\* The drive's steps: step i ends one degree of longitude further west.
RouteOfLength(n) ==
    [i \in 1..n |-> [end_location |-> [lat |-> 42, lng |-> -88 - i]]]

\* gmaps.directions(...): no route, or one route with one leg.
DirectionsResults(max_steps) ==
    {<<>>} \cup
    { << [legs |-> << [steps |-> RouteOfLength(n),
                       start_location |-> StartLocation] >>] >> :
        n \in 0..max_steps }

Place(lat, lng, vicinity) ==
    [geometry |-> [location |-> [lat |-> lat, lng |-> lng]], vicinity |-> vicinity]

\* The gas stations the places service knows: two within 500 miles of the
\* start (51.4808 and 471.7829 miles) and one beyond (523.0819 miles).
Places ==
    { Place(42, -89, "1 Main St, Rockford"), Place(41, -97, "3 Lincoln Ave, York"),
      Place(41, -98, "4 Locust St, Grand Island") }

\* gmaps.places_nearby(...): any list of distinct places, possibly empty.
PlacesResults(max_places) ==
    { [results |-> s] :
        s \in { t \in UNION {[1..n -> Places] : n \in 0..max_places} :
                  \A i, j \in DOMAIN t : i # j => t[i] # t[j] } }

StateAt(lat, lng) == IF lng >= -90 THEN "IL" ELSE "NE"

\* gmaps.reverse_geocode(latlng): nothing, an address with its state, an
\* address whose state component has no short name, or one with no state.
ReverseGeocodeResults(latlng) ==
    { <<>>,
      << [address_components |->
            << [types |-> {"locality", "political"}, short_name |-> "Town"],
               [types |-> {"administrative_area_level_1", "political"},
                short_name |-> StateAt(latlng[1], latlng[2])] >>] >>,
      << [address_components |->
            << [types |-> {"administrative_area_level_1", "political"}] >>] >>,
      << [address_components |->
            << [types |-> {"country", "political"}, short_name |-> "US"] >>] >> }

----------------------------------------------------------------------------
\* optimize_route

\* `not start_address or not finish_address`
addresses_missing_both(start_address, finish_address) ==
    ~truthy(start_address) /\ ~truthy(finish_address)

addresses_missing(start_address, finish_address) ==
    ~truthy(start_address) \/ ~truthy(finish_address)

JsonResponse(body, status) == [status |-> status, body |-> body]

LocationsRequired ==
    JsonResponse([error |-> "Start and finish locations are required."], 400)

FailedToFetchRoute_200 == JsonResponse([error |-> "Failed to fetch route."], 200)

FailedToFetchRoute == JsonResponse([error |-> "Failed to fetch route."], 400)

is_within_any_distance(coord, start_coords) == TRUE

is_within_500_miles(coord, start_coords) ==
    geodesic_miles(<<start_coords.lat, start_coords.lng>>, coord)
        <= TenThousandths(500)

\* The loop over address_components: the short name of the first component
\* typed administrative_area_level_1, None when there is none.
RECURSIVE state_of_components(_)
state_of_components(components) ==
    IF components = <<>> THEN None
    ELSE IF "administrative_area_level_1" \in Head(components).types
         THEN IF "short_name" \in DOMAIN Head(components)
              THEN Head(components).short_name ELSE None
         ELSE state_of_components(Tail(components))

state_of(reverse_geocode_result) ==
    IF reverse_geocode_result = <<>> THEN None
    ELSE state_of_components(reverse_geocode_result[1].address_components)

fuel_station_info(place, state, start_coords) ==
    [lat |-> place.geometry.location.lat,
     lng |-> place.geometry.location.lng,
     formatted_address |-> place.vicinity,
     state |-> state,
     distance |-> geodesic_miles(<<start_coords.lat, start_coords.lng>>,
                     <<place.geometry.location.lat, place.geometry.location.lng>>)]

NoRequest ==
    [pc |-> "none", start_address |-> None, finish_address |-> None,
     directions_result |-> <<>>, route |-> <<>>, start_coords |-> Unbound,
     step |-> 0,
     places_result |-> Unbound, place |-> 0,
     fuel_stations_within_500_miles |-> <<>>, calls |-> <<>>,
     response |-> Unbound]

Call(api, args) == [api |-> api, args |-> args]

\* Where the loop over the route goes once step `done` is finished.
after_step(rq, done) ==
    IF done < Len(rq.route)
    THEN [rq EXCEPT !.pc = "places_nearby", !.step = done + 1,
                    !.places_result = Unbound, !.place = 0]
    ELSE [rq EXCEPT !.pc = "select", !.step = 0,
                    !.places_result = Unbound, !.place = 0]

\* Lines 151-173: the reverse-geocode call for a place in range, and the
\* entry appended for it.
geocode_twice_and_append(rq, place, reverse_geocode_result) ==
    LET latlng == <<place.geometry.location.lat, place.geometry.location.lng>>
    IN  [rq EXCEPT
           !.calls = @ \o <<Call("reverse_geocode", latlng),
                            Call("reverse_geocode", latlng)>>,
           !.fuel_stations_within_500_miles = Append(@,
               fuel_station_info(place, state_of(reverse_geocode_result),
                                 rq.start_coords))]

geocode_and_append(rq, place, reverse_geocode_result) ==
    LET latlng == <<place.geometry.location.lat, place.geometry.location.lng>>
    IN  [rq EXCEPT
           !.calls = Append(@, Call("reverse_geocode", latlng)),
           !.fuel_stations_within_500_miles = Append(@,
               fuel_station_info(place, state_of(reverse_geocode_result),
                                 rq.start_coords))]

\* Lines 104-110: the request arrives; a missing address ends it.
ReceiveRequest(r) ==
    /\ req[r].pc = "idle"
    /\ \E start_address \in StartAddresses, finish_address \in FinishAddresses :
         req' = [req EXCEPT ![r] =
            IF addresses_missing(start_address, finish_address)
            THEN [@ EXCEPT !.pc = "done", !.start_address = start_address,
                           !.finish_address = finish_address,
                           !.response = LocationsRequired]
            ELSE [@ EXCEPT !.pc = "directions", !.start_address = start_address,
                           !.finish_address = finish_address]]
    /\ UNCHANGED <<csv_file, FUEL_DATA, argsort_kind, limits, sel, cost>>

\* Lines 112-132: the directions call and what is read from its result.
CallDirections(r) ==
    /\ req[r].pc = "directions"
    /\ \E directions_result \in DirectionsResults(limits.steps) :
         LET called == [req[r] EXCEPT !.calls = Append(@,
                           Call("directions",
                                <<req[r].start_address, req[r].finish_address>>))]
         IN  req' = [req EXCEPT ![r] =
                IF directions_result = <<>>
                THEN [called EXCEPT !.pc = "done",
                                    !.directions_result = directions_result,
                                    !.response = FailedToFetchRoute]
                ELSE after_step(
                       [called EXCEPT
                          !.directions_result = directions_result,
                          !.route = directions_result[1].legs[1].steps,
                          !.start_coords = directions_result[1].legs[1].start_location,
                          !.fuel_stations_within_500_miles = <<>>], 0)]
    /\ UNCHANGED <<csv_file, FUEL_DATA, argsort_kind, limits, sel, cost>>

\* Lines 135-146: one iteration of the loop over the route, up to the places.
CallPlacesNearby(r) ==
    /\ req[r].pc = "places_nearby"
    /\ \E places_result \in PlacesResults(limits.places) :
         LET location == req[r].route[req[r].step].end_location
             called == [req[r] EXCEPT !.calls = Append(@,
                           Call("places_nearby", <<location.lat, location.lng>>))]
         IN  req' = [req EXCEPT ![r] =
                IF places_result.results # <<>>
                THEN [called EXCEPT !.pc = "place", !.places_result = places_result,
                                    !.place = 1]
                ELSE after_step(called, req[r].step)]
    /\ UNCHANGED <<csv_file, FUEL_DATA, argsort_kind, limits, sel, cost>>

\* Lines 147-173: one iteration of the loop over the places of a step.
ProcessPlace(r) ==
    /\ req[r].pc = "place"
    /\ LET rq == req[r]
           place == rq.places_result.results[rq.place]
           latlng == <<place.geometry.location.lat, place.geometry.location.lng>>
           next(q) == IF rq.place < Len(rq.places_result.results)
                      THEN [q EXCEPT !.place = rq.place + 1]
                      ELSE after_step(q, rq.step)
       IN  IF is_within_500_miles(latlng, rq.start_coords)
           THEN \E reverse_geocode_result \in ReverseGeocodeResults(latlng) :
                  req' = [req EXCEPT ![r] =
                            next(geocode_and_append(rq, place, reverse_geocode_result))]
           ELSE req' = [req EXCEPT ![r] = next(rq)]
    /\ UNCHANGED <<csv_file, FUEL_DATA, argsort_kind, limits, sel, cost>>

\* Respond, with the table sorted in place before the selection.
Respond_sorting_in_place(r) ==
    /\ req[r].pc = "select"
    /\ LET filtered_fuel_stations ==
               get_fuel_stations_by_state(req[r].fuel_stations_within_500_miles)
           filtered_fuel_stations_json == to_json_records(filtered_fuel_stations)
       IN  req' = [req EXCEPT ![r] = [@ EXCEPT
              !.pc = "done",
              !.response = JsonResponse(
                  [route_map |-> <<req[r].start_address, req[r].finish_address>>,
                   optimal_stations |-> filtered_fuel_stations_json,
                   direction |-> req[r].directions_result], 200)]]
    /\ FUEL_DATA' = sort_values(FUEL_DATA, "Retail Price", argsort_kind)
    /\ UNCHANGED <<csv_file, argsort_kind, limits, sel, cost>>

\* Lines 174-190: the selection and the response.
Respond(r) ==
    /\ req[r].pc = "select"
    /\ LET filtered_fuel_stations ==
               get_fuel_stations_by_state(req[r].fuel_stations_within_500_miles)
           filtered_fuel_stations_json == to_json_records(filtered_fuel_stations)
       IN  req' = [req EXCEPT ![r] = [@ EXCEPT
              !.pc = "done",
              !.response = JsonResponse(
                  [route_map |-> <<req[r].start_address, req[r].finish_address>>,
                   optimal_stations |-> filtered_fuel_stations_json,
                   direction |-> req[r].directions_result], 200)]]
    /\ UNCHANGED <<csv_file, FUEL_DATA, argsort_kind, limits, sel, cost>>

NoSel == [pc |-> "none", stops |-> <<>>, filtered |-> <<>>, total |-> Unbound]

NoCost == [pc |-> "none", prev |-> Unbound, cur |-> Unbound]

Init ==
    /\ csv_file \in SampleCsvFiles
    /\ FUEL_DATA = read_csv(csv_file)
    /\ argsort_kind \in ArgsortKinds
    /\ limits = [steps |-> MaxSteps, places |-> MaxPlaces]
    /\ req = [r \in Requests |-> IF r = 1 THEN [NoRequest EXCEPT !.pc = "idle"]
                                  ELSE NoRequest]
    /\ sel = NoSel
    /\ cost = NoCost

Next ==
    \E r \in Requests :
        \/ ReceiveRequest(r)
        \/ CallDirections(r)
        \/ CallPlacesNearby(r)
        \/ ProcessPlace(r)
        \/ Respond(r)

\* One request at a time.
Spec == Init /\ [][Next]_vars

\* Two requests handled concurrently by the same process.
InitConc ==
    /\ csv_file = NebraskaCsv
    /\ FUEL_DATA = read_csv(csv_file)
    /\ argsort_kind \in ArgsortKinds
    /\ limits = [steps |-> ConcSteps, places |-> ConcPlaces]
    /\ req = [r \in Requests |-> [NoRequest EXCEPT !.pc = "idle"]]
    /\ sel = NoSel
    /\ cost = NoCost

SpecConc == InitConc /\ [][Next]_vars

----------------------------------------------------------------------------
\* The selection helpers called directly, on any small table and stop list.

CsvRows(i) ==
    { FuelRow(100 + i, "Omaha", sp[1], sp[2]) :
        sp \in {<<"NE", 300>>, <<"NE", 310>>, <<"IL", 300>>} }

RECURSIVE CsvFilesOfLength(_)
CsvFilesOfLength(n) ==
    IF n = 0 THEN {<<>>}
    ELSE {Append(f, row) : f \in CsvFilesOfLength(n - 1), row \in CsvRows(n)}

CsvFiles == UNION {CsvFilesOfLength(n) : n \in 0..MaxRows}

\* The entries optimize_route can append: a place in range, with the state
\* reverse geocoding gives for it.
StopEntries ==
    UNION { { fuel_station_info(p, state_of(g), StartLocation) :
                g \in ReverseGeocodeResults(<<p.geometry.location.lat,
                                              p.geometry.location.lng>>) } :
            p \in { q \in Places :
                      is_within_500_miles(<<q.geometry.location.lat,
                                            q.geometry.location.lng>>,
                                          StartLocation) } }

StopLists == UNION {[1..n -> StopEntries] : n \in 0..MaxStops}

InitSel ==
    /\ csv_file \in CsvFiles
    /\ FUEL_DATA = read_csv(csv_file)
    /\ argsort_kind \in ArgsortKinds
    /\ limits = [steps |-> 0, places |-> 0]
    /\ req = [r \in Requests |-> NoRequest]
    /\ sel \in {[NoSel EXCEPT !.pc = "called", !.stops = l] : l \in StopLists}
    /\ cost = NoCost

SelectStations ==
    /\ sel.pc = "called"
    /\ sel' = [sel EXCEPT !.pc = "selected",
                          !.filtered = get_fuel_stations_by_state(sel.stops)]
    /\ UNCHANGED <<csv_file, FUEL_DATA, argsort_kind, limits, req, cost>>

NextSel == SelectStations

SpecSel == InitSel /\ [][NextSel]_vars

\* The disabled line 175: the total costs of the selected stations.
InitTotal ==
    /\ csv_file \in SampleCsvFiles
    /\ FUEL_DATA = read_csv(csv_file)
    /\ argsort_kind \in ArgsortKinds
    /\ limits = [steps |-> 0, places |-> 0]
    /\ req = [r \in Requests |-> NoRequest]
    /\ sel \in {[NoSel EXCEPT !.pc = "called", !.stops = l] : l \in StopLists}
    /\ cost = NoCost

TotalCost ==
    /\ sel.pc = "called"
    /\ \E round_kind \in RoundKinds :
         LET filtered_fuel_stations == get_fuel_stations_by_state(sel.stops)
         IN  sel' = [sel EXCEPT
                !.pc = "costed",
                !.filtered = filtered_fuel_stations,
                !.total = calculate_total_cost(filtered_fuel_stations, sel.stops,
                                               round_kind)]
    /\ UNCHANGED <<csv_file, FUEL_DATA, argsort_kind, limits, req, cost>>

NextTotal == TotalCost

SpecTotal == InitTotal /\ [][NextTotal]_vars

----------------------------------------------------------------------------
\* calculate_fuel_cost called directly, twice in a row.

InitCost ==
    /\ csv_file = EmptyCsv
    /\ FUEL_DATA = read_csv(csv_file)
    /\ argsort_kind = "table_order"
    /\ limits = [steps |-> 0, places |-> 0]
    /\ req = [r \in Requests |-> NoRequest]
    /\ sel = NoSel
    /\ cost = [NoCost EXCEPT !.pc = "ready"]

\* Distances: the half miles from 0, for each of them the float just below
\* it and the least float above it by one part in 2^50, the two least
\* positive floats, and the greatest finite float and three quarters of
\* 2^1024.
Distances ==
    LET half_miles == {float_of_decimal(d, 2) : d \in 0..MaxDistance}
        positive == half_miles \ {FloatZero}
    IN  half_miles
          \cup {float_before(x) : x \in positive}
          \cup {float_one_part_in_2_50_above(x) : x \in positive}
          \cup {FloatMin, [FloatMin EXCEPT !.m = <<2>>]}
          \cup {[FloatMax EXCEPT !.m = BigShl(<<3>>, 51)], FloatMax}

\* Prices: the cents from 1, for each of them the least float above it by
\* one part in 2^50, and 20 dollars.
FuelPrices ==
    LET cents == {float_of_decimal(p, 100) : p \in 1..MaxPrice}
    IN  cents
          \cup {float_one_part_in_2_50_above(x) : x \in cents}
          \cup {float_of_decimal(20, 1)}

\* The calls of calculate_fuel_cost on these inputs, each with its result.
FuelCostCalls ==
    {[distance |-> distance, fuel_price |-> fuel_price,
      result |-> calculate_fuel_cost(distance, fuel_price)] :
        distance \in Distances, fuel_price \in FuelPrices}

FuelCost ==
    /\ cost.pc = "ready"
    /\ \E call \in FuelCostCalls :
         cost' = [cost EXCEPT !.prev = cost.cur, !.cur = call]
    /\ UNCHANGED <<csv_file, FUEL_DATA, argsort_kind, limits, req, sel>>

NextCost == FuelCost

SpecCost == InitCost /\ [][NextCost]_vars

----------------------------------------------------------------------------
\* Properties

CallsTo(calls, api) == SelectSeq(calls, LAMBDA c : c.api = api)

Answered(r, status) ==
    req[r].pc = "done" /\ req[r].response.status = status

\* C1: a request whose start or finish is missing or empty is answered with
\* status 400 and {"error": "Start and finish locations are required."}, and
\* no external call is made at any point of handling it.
C1_MissingAddressRejected ==
    \A r \in Requests :
        ( /\ req[r].pc \notin {"none", "idle"}
          /\ \/ req[r].start_address \in {None, ""}
             \/ req[r].finish_address \in {None, ""} )
        => /\ req[r].pc = "done"
           /\ req[r].response =
                [status |-> 400,
                 body |-> [error |-> "Start and finish locations are required."]]
           /\ req[r].calls = <<>>

C1_Witness ==
    \E r \in Requests :
        /\ req[r].pc = "done"
        /\ req[r].start_address = "Chicago, IL"
        /\ req[r].finish_address = None
        /\ req[r].response.status = 400
        /\ req[r].calls = <<>>

\* C2: when both addresses are present and the directions service returns
\* no route, the request is answered with status 400 and an error payload,
\* and the directions call is the only external call of the request.
C2_NoRouteRejected ==
    \A r \in Requests :
        ( /\ CallsTo(req[r].calls, "directions") # <<>>
          /\ req[r].directions_result = <<>> )
        => /\ req[r].pc = "done"
           /\ req[r].response.status = 400
           /\ DOMAIN req[r].response.body = {"error"}
           /\ req[r].response.body.error # ""
           /\ Len(req[r].calls) = 1
           /\ req[r].calls[1].api = "directions"

C2_Witness ==
    \E r \in Requests :
        /\ req[r].pc = "done"
        /\ truthy(req[r].start_address) /\ truthy(req[r].finish_address)
        /\ Len(req[r].calls) = 1
        /\ req[r].directions_result = <<>>
        /\ req[r].response.status = 400

\* C3: when a route is found but no station qualifies, the request is
\* answered with status 400 and "No fuel stations found within the route.";
\* a success response never carries an empty station list.
C3_NoStationsRejected ==
    \A r \in Requests :
        (req[r].pc = "done" /\ req[r].directions_result # <<>>)
        => /\ (req[r].fuel_stations_within_500_miles = <<>> \/ FUEL_DATA = <<>>)
                => req[r].response =
                     [status |-> 400,
                      body |-> [error |-> "No fuel stations found within the route."]]
           /\ req[r].response.status = 200
                => req[r].response.body.optimal_stations # <<>>

\* C4: at every point of a request, every entry of
\* fuel_stations_within_500_miles carries a distance of at most VEHICLE_RANGE
\* miles, and is a place at most that far from the start.
C4_EligibleStopsWithinRange ==
    \A r \in Requests :
        \A i \in DOMAIN req[r].fuel_stations_within_500_miles :
            LET stop == req[r].fuel_stations_within_500_miles[i]
            IN  /\ stop.distance <= TenThousandths(VEHICLE_RANGE)
                /\ geodesic_miles(<<req[r].start_coords.lat, req[r].start_coords.lng>>,
                                  <<stop.lat, stop.lng>>)
                     <= TenThousandths(VEHICLE_RANGE)

\* A place 471.7829 miles out has been appended at an earlier step, and the
\* first place of this step, beyond the range, has been passed over.
C4_Witness ==
    \E r \in Requests :
        /\ req[r].pc = "place"
        /\ req[r].place = 2
        /\ LET passed == req[r].places_result.results[1].geometry.location
           IN  /\ geodesic_miles(<<req[r].start_coords.lat, req[r].start_coords.lng>>,
                                 <<passed.lat, passed.lng>>)
                    > TenThousandths(VEHICLE_RANGE)
               /\ \A i \in DOMAIN req[r].fuel_stations_within_500_miles :
                    <<req[r].fuel_stations_within_500_miles[i].lat,
                      req[r].fuel_stations_within_500_miles[i].lng>>
                        # <<passed.lat, passed.lng>>
        /\ \E i \in DOMAIN req[r].fuel_stations_within_500_miles :
             req[r].fuel_stations_within_500_miles[i].distance = 4717829

\* C7 as stated: one places-nearby search per route step, at most one
\* reverse-geocode call per step, all after the single directions call.
C7_OneReverseGeocodePerStep ==
    \A r \in Requests :
        /\ Len(CallsTo(req[r].calls, "directions")) <= 1
        /\ req[r].calls # <<>> => req[r].calls[1].api = "directions"
        /\ Len(CallsTo(req[r].calls, "reverse_geocode")) <= Len(req[r].route)
        /\ Answered(r, 200)
             => Len(CallsTo(req[r].calls, "places_nearby")) = Len(req[r].route)

\* The steps of the route whose places-nearby search has been issued.
StepsSearched(r) ==
    CASE req[r].pc = "places_nearby" -> req[r].step - 1
      [] req[r].pc = "place" -> req[r].step
      [] req[r].pc = "select" -> Len(req[r].route)
      [] Answered(r, 200) -> Len(req[r].route)
      [] OTHER -> 0

\* C7, amended: one places-nearby search per route step, at the step's end
\* location, and one reverse-geocode call per returned place within 500
\* miles of the start (one per entry appended, in order), all after the
\* single directions call.
C7_OneReverseGeocodePerPlaceInRange ==
    \A r \in Requests :
        LET calls == req[r].calls
            searches == CallsTo(calls, "places_nearby")
            geocodes == CallsTo(calls, "reverse_geocode")
            stops == req[r].fuel_stations_within_500_miles
        IN  /\ Len(CallsTo(calls, "directions")) <= 1
            /\ calls # <<>> => calls[1].api = "directions"
            /\ Len(searches) = StepsSearched(r)
            /\ \A i \in DOMAIN searches :
                 searches[i].args = <<req[r].route[i].end_location.lat,
                                      req[r].route[i].end_location.lng>>
            /\ Len(geocodes) = Len(stops)
            /\ \A i \in DOMAIN geocodes :
                 /\ geocodes[i].args = <<stops[i].lat, stops[i].lng>>
                 /\ geodesic_miles(<<req[r].start_coords.lat, req[r].start_coords.lng>>,
                                   geocodes[i].args)
                      <= TenThousandths(VEHICLE_RANGE)

\* A finished request with more reverse-geocode calls than route steps.
C7_Witness ==
    \E r \in Requests :
        /\ Answered(r, 200)
        /\ Len(req[r].route) >= 1
        /\ Len(CallsTo(req[r].calls, "reverse_geocode")) > Len(req[r].route)

\* The stations of the table in a state some eligible stop of r is in.
StationsOfVisitedStates(r) ==
    { i \in DOMAIN FUEL_DATA :
        \E k \in DOMAIN req[r].fuel_stations_within_500_miles :
            req[r].fuel_stations_within_500_miles[k].state = FUEL_DATA[i].row["State"] }

Returned(r, i) ==
    \E k \in DOMAIN req[r].response.body.optimal_stations :
        req[r].response.body.optimal_stations[k]["OPIS Truckstop ID"]
            = FUEL_DATA[i].row["OPIS Truckstop ID"]

\* C10: every station of the table whose state is the state of some eligible
\* stop is a candidate, whatever its own distance to the route: it is
\* returned unless five stations at most as expensive are.
C10_PoolIsEveryStationOfVisitedStates ==
    \A r \in Requests :
        Answered(r, 200) =>
            \A i \in StationsOfVisitedStates(r) :
                \/ Returned(r, i)
                \/ /\ Len(req[r].response.body.optimal_stations) = HEAD_ROWS
                   /\ \A k \in 1..HEAD_ROWS :
                        req[r].response.body.optimal_stations[k]["Retail Price"]
                            <= FUEL_DATA[i].row["Retail Price"]

\* A returned station stands more than 500 miles from the start and from
\* the end of every step of the route.
C10_Witness ==
    \E r \in Requests :
        /\ Answered(r, 200)
        /\ \E i \in DOMAIN FUEL_DATA :
             /\ Returned(r, i)
             /\ geodesic_miles(<<req[r].start_coords.lat, req[r].start_coords.lng>>,
                               StationCoords(FUEL_DATA[i].row))
                  > TenThousandths(VEHICLE_RANGE)
             /\ \A s \in DOMAIN req[r].route :
                  geodesic_miles(<<req[r].route[s].end_location.lat,
                                   req[r].route[s].end_location.lng>>,
                                 StationCoords(FUEL_DATA[i].row))
                    > TenThousandths(VEHICLE_RANGE)

RECURSIVE SetToSeq(_)
SetToSeq(S) ==
    IF S = {} THEN <<>>
    ELSE LET x == CHOOSE y \in S : TRUE IN <<x>> \o SetToSeq(S \ {x})

\* A stop list with exactly one stop in each of the given states.
OnePerState(states) ==
    LET ordered == SetToSeq(states)
    IN  [i \in DOMAIN ordered |->
            [lat |-> 42, lng |-> -89, formatted_address |-> "1 Main St, Rockford",
             state |-> ordered[i], distance |-> 514808]]

\* C5: get_fuel_stations_by_state returns the first 5 rows (fewer if fewer
\* exist) of the table restricted to the states of the eligible stops, by
\* ascending retail price: every returned row is a row of the table in a
\* visited state, there are min(5, candidates) of them, prices do not
\* decrease, no excluded candidate is strictly cheaper than a returned row,
\* and the result is that of one stop per visited state.
C5_CheapestFiveOfVisitedStates ==
    sel.pc = "selected" =>
        LET result == sel.filtered
            visited == {sel.stops[i].state : i \in DOMAIN sel.stops}
            candidates ==
                {i \in DOMAIN FUEL_DATA : FUEL_DATA[i].row["State"] \in visited}
            at(k) == result[k].index + 1
        IN  /\ Len(result) = Min(5, Cardinality(candidates))
            /\ \A k \in DOMAIN result :
                 /\ at(k) \in candidates
                 /\ result[k].row =
                      [c \in {"OPIS Truckstop ID", "Truckstop Name", "Retail Price"}
                          |-> FUEL_DATA[at(k)].row[c]]
            /\ \A k, m \in DOMAIN result :
                 k < m => /\ at(k) # at(m)
                          /\ result[k].row["Retail Price"] <= result[m].row["Retail Price"]
            /\ \A c \in candidates :
                 (\A k \in DOMAIN result : at(k) # c)
                    => \A k \in DOMAIN result :
                         result[k].row["Retail Price"] <= FUEL_DATA[c].row["Retail Price"]
            /\ result = get_fuel_stations_by_state(OnePerState(visited))

\* Two stops in the same state, more than five candidates of which five are
\* returned, the first cheaper than the last.
C5_Witness ==
    /\ sel.pc = "selected"
    /\ Len(sel.stops) = 2
    /\ sel.stops[1].state = sel.stops[2].state
    /\ Len(sel.filtered) = 5
    /\ Cardinality({i \in DOMAIN FUEL_DATA :
                      FUEL_DATA[i].row["State"] = sel.stops[1].state}) > 5
    /\ sel.filtered[1].row["Retail Price"] < sel.filtered[5].row["Retail Price"]

\* The exact value of a float as an integer, in units of 2^e.
Scaled(x, e) == BigShl(x.m, x.e - e)

\* The result of a call is (distance / 10) * price up to the two float
\* roundings of the expression: the difference between 10 * result and
\* distance * price is at most distance * price / 2^51.  A result of inf is
\* not, and a result of 0 only where distance * price is 0.
IsCostOf(call) ==
    LET e == Min(call.result.e, call.distance.e + call.fuel_price.e)
        ten_results == BigShl(BigMulSmall(call.result.m, 10, 0), call.result.e - e)
        product == BigShl(BigMul(call.distance.m, call.fuel_price.m),
                          call.distance.e + call.fuel_price.e - e)
        difference == IF BigLess(ten_results, product)
                      THEN BigSub(product, ten_results)
                      ELSE BigSub(ten_results, product)
    IN  IF call.result = FloatInf THEN FALSE
        ELSE IF call.result = FloatZero
        THEN call.distance = FloatZero \/ call.fuel_price = FloatZero
        ELSE ~BigLess(product, BigShl(difference, 51))

\* b >= a * (1 + 2^-50), for floats 0 <= a.
ApartBy50Bits(a, b) ==
    LET e == Min(a.e, b.e)
    IN  IF a.m = <<>> THEN TRUE
        ELSE IF b.m = <<>> \/ Top(b) < Top(a) THEN FALSE
        ELSE IF Top(b) > Top(a) + 1 THEN TRUE
        ELSE ~BigLess(BigShl(Scaled(b, e), 50),
                      BigAdd(BigShl(Scaled(a, e), 50), Scaled(a, e), 0))

\* C6 as stated: calculate_fuel_cost(distance, price) = (distance / 10) *
\* price; a greater distance at the same price costs strictly more, a greater
\* price at the same distance costs strictly more, and distance 0 costs 0.
C6_StrictlyMonotonic ==
    IsBound(cost.cur) =>
        /\ IsCostOf(cost.cur)
        /\ cost.cur.distance = FloatZero => cost.cur.result = FloatZero
        /\ IsBound(cost.prev) =>
             /\ ( /\ cost.prev.fuel_price = cost.cur.fuel_price
                  /\ float_less(cost.prev.distance, cost.cur.distance) )
                => float_less(cost.prev.result, cost.cur.result)
             /\ ( /\ cost.prev.distance = cost.cur.distance
                  /\ float_less(cost.prev.fuel_price, cost.cur.fuel_price) )
                => float_less(cost.prev.result, cost.cur.result)

\* The arguments of a call are such that the float quotient distance / 10 and
\* its float product with the price are normal floats: neither underflows to
\* a subnormal or to zero, nor overflows to inf.
InNormalRange(call) ==
    LET quotient == float_div_int(call.distance, VEHICLE_MPG)
    IN  /\ IsNormal(quotient)
        /\ IsNormal(float_mul(quotient, call.fuel_price))

\* C6, amended: calculate_fuel_cost(distance, price) is (distance / 10) *
\* price up to float rounding wherever the quotient and the product are
\* normal floats; a greater distance at the same price, or a greater price at
\* the same distance, never costs less, and costs strictly more when the
\* greater value exceeds the smaller by at least one part in 2^50 and the
\* quotient and the product of both calls are normal floats; distance 0
\* costs 0.
C6_MonotonicUpToRounding ==
    IsBound(cost.cur) =>
        /\ InNormalRange(cost.cur) => IsCostOf(cost.cur)
        /\ cost.cur.distance = FloatZero => cost.cur.result = FloatZero
        /\ IsBound(cost.prev) =>
             /\ ( /\ cost.prev.fuel_price = cost.cur.fuel_price
                  /\ float_less(cost.prev.distance, cost.cur.distance) )
                => /\ ~float_less(cost.cur.result, cost.prev.result)
                   /\ ( /\ InNormalRange(cost.prev) /\ InNormalRange(cost.cur)
                        /\ ApartBy50Bits(cost.prev.distance, cost.cur.distance) )
                      => float_less(cost.prev.result, cost.cur.result)
             /\ ( /\ cost.prev.distance = cost.cur.distance
                  /\ float_less(cost.prev.fuel_price, cost.cur.fuel_price) )
                => /\ ~float_less(cost.cur.result, cost.prev.result)
                   /\ ( /\ InNormalRange(cost.prev) /\ InNormalRange(cost.cur)
                        /\ ApartBy50Bits(cost.prev.fuel_price, cost.cur.fuel_price) )
                      => float_less(cost.prev.result, cost.cur.result)

\* Two calls at the same price with normal quotients and products, the
\* second at the least distance greater by one part in 2^50, and at a
\* greater cost.
C6_Witness ==
    /\ IsBound(cost.cur) /\ IsBound(cost.prev)
    /\ cost.prev.fuel_price = cost.cur.fuel_price
    /\ InNormalRange(cost.prev) /\ InNormalRange(cost.cur)
    /\ cost.cur.distance = float_one_part_in_2_50_above(cost.prev.distance)
    /\ ApartBy50Bits(cost.prev.distance, cost.cur.distance)
    /\ ~ApartBy50Bits(cost.prev.distance, float_before(cost.cur.distance))
    /\ float_less(cost.prev.result, cost.cur.result)

\* Two calls at the same price, the second at the next float of distance,
\* at the same cost.
C6_SameCostAtNextDistance ==
    /\ IsBound(cost.cur) /\ IsBound(cost.prev)
    /\ cost.prev.fuel_price = cost.cur.fuel_price
    /\ cost.prev.distance = float_before(cost.cur.distance)
    /\ cost.prev.result = cost.cur.result
    /\ float_less(FloatZero, cost.cur.result)

\* Two calls at the same price, the second at twice the distance, where
\* both quotients distance / 10 underflow: both cost 0.
C6_SameCostOnUnderflow ==
    /\ IsBound(cost.cur) /\ IsBound(cost.prev)
    /\ cost.prev.fuel_price = cost.cur.fuel_price
    /\ float_less(FloatZero, cost.prev.distance)
    /\ ApartBy50Bits(cost.prev.distance, cost.cur.distance)
    /\ cost.prev.result = FloatZero /\ cost.cur.result = FloatZero

\* Two calls at the same price, the second at a distance greater by a
\* third, where both products overflow: both cost inf.
C6_SameCostOnOverflow ==
    /\ IsBound(cost.cur) /\ IsBound(cost.prev)
    /\ cost.prev.fuel_price = cost.cur.fuel_price
    /\ ApartBy50Bits(cost.prev.distance, cost.cur.distance)
    /\ cost.prev.result = FloatInf /\ cost.cur.result = FloatInf

\* A call with a positive distance whose product underflows to a subnormal
\* float that is not within one part in 2^51 of (distance / 10) * price.
C6_InexactOnUnderflow ==
    /\ IsBound(cost.cur)
    /\ float_less(FloatZero, cost.cur.result)
    /\ ~IsNormal(cost.cur.result)
    /\ ~IsCostOf(cost.cur)

\* C8: FUEL_DATA always holds the rows, order and values it was loaded
\* with, and, however the requests interleave, a request answered with
\* status 200 carries the stations selected from the table as loaded for
\* its own eligible stops.
C8_FuelTableNeverMutated ==
    /\ FUEL_DATA = read_csv(csv_file)
    /\ \A r \in Requests :
         Answered(r, 200)
         => req[r].response.body.optimal_stations =
              to_json_records(head(project(
                 sort_values(
                    SelectSeq(read_csv(csv_file), LAMBDA e :
                       \E k \in DOMAIN req[r].fuel_stations_within_500_miles :
                          req[r].fuel_stations_within_500_miles[k].state
                             = e.row["State"]),
                    "Retail Price", argsort_kind),
                 {"OPIS Truckstop ID", "Truckstop Name", "Retail Price"}), 5))

\* Both requests answered with status 200, with different stations.
C8_Witness ==
    /\ \A r \in Requests :
         /\ Answered(r, 200)
         /\ req[r].response.body.optimal_stations # <<>>
    /\ req[1].response.body.optimal_stations # req[2].response.body.optimal_stations

\* C9: on the table get_fuel_stations_by_state returns and the eligible
\* stops, calculate_total_cost completes without error and returns at most
\* 5 entries, one per station that has a matching stop, in the table's order.
C9_TotalCostCompletes ==
    sel.pc = "costed" =>
        /\ sel.total.raised = None
        /\ Len(sel.total.value) <= 5
        /\ Len(sel.total.value) <= Len(sel.filtered)
        /\ \A i \in DOMAIN sel.total.value :
             \E k \in DOMAIN sel.filtered :
                /\ k >= i
                /\ sel.filtered[k].row["OPIS Truckstop ID"] = sel.total.value[i].id

====
